---- MODULE Spec2Model ----
(***************************************************************************)
(* Model of the clean-http-client package (src/client.go): HttpConfig,     *)
(* HttpClient and its constructors, the request assembler createRequest,   *)
(* the verb methods, ExecuteRequest / handleError and the requestBuilder.  *)
(*                                                                         *)
(* Go strings are modelled as sequences of one-character strings, so that  *)
(* trimming, joining, URL parsing and base64 are computed character by     *)
(* character.  Media types and HTTP methods are only ever compared for     *)
(* equality by the code and are kept as atomic strings.  A nil pointer,    *)
(* nil interface or nil map is the record Nil.                             *)
(***************************************************************************)
EXTENDS Integers, Sequences, FiniteSets, TLC

VARIABLES
    proc,    \* the host process: "running", "panicked" (panic) or "exited" (log.Fatal)
    cfg,     \* the *HttpConfig the caller holds (Nil before one is made)
    client,  \* the *HttpClient the caller holds (Nil before one is made)
    call,    \* the last call made: its name and arguments
    sent,    \* the requests the last call handed to the transport (client.Do)
    ret,     \* what the last call returned to the caller
    rb,      \* the requestBuilder
    threads  \* concurrent callers of one client: each caller's position in its call

vars == <<proc, cfg, client, call, sent, ret, rb, threads>>

Nil == [nil |-> TRUE]

----------------------------------------------------------------------------
(* Bounds of the model *)

MaxBaseLen == 2      \* longest base URL
MaxPathLen == 2      \* longest path / endpoint
MaxUserLen == 2      \* longest username
MaxPassLen == 2      \* longest password
MaxKeyLen  == 1      \* longest query parameter key
MaxValLen  == 1      \* longest query parameter value
MaxParams  == 2      \* most query parameters held by a builder

----------------------------------------------------------------------------
(* Strings *)

Strs(A, n) == UNION {[1..k -> A] : k \in 0..n}

\* a byte below 0x20 or 0x7f: here DEL
DEL == "DEL"

\* the byte value of each character the model uses
ByteOf(c) ==
    CASE c = " " -> 32
      [] c = "&" -> 38
      [] c = "/" -> 47
      [] c = "1" -> 49
      [] c = ":" -> 58
      [] c = "a" -> 97
      [] c = "b" -> 98
      [] c = "h" -> 104
      [] c = "p" -> 112
      [] c = "t" -> 116
      [] c = DEL -> 127

URLChars  == {"/", "a", DEL}
UserChars == {"a"}
PassChars == {"p"}

\* a base URL is an http origin followed by up to MaxBaseLen characters
HTTPOrigin == <<"h", "t", "t", "p", ":", "/", "/", "h">>
BaseURLs  == {HTTPOrigin \o s : s \in Strs(URLChars, MaxBaseLen)}
Paths     == Strs(URLChars, MaxPathLen)
Usernames == Strs(UserChars, MaxUserLen)
Passwords == Strs(PassChars, MaxPassLen)
\* query parameter keys: "b" and the runs of "a"; values: the runs of "1"
\* and a space, which Encode has to escape
Keys      == {<<"b">>} \cup (Strs({"a"}, MaxKeyLen) \ {<<>>})
Values    == {<<" ">>} \cup Strs({"1"}, MaxValLen)

HasPrefix(s, p) == Len(s) >= Len(p) /\ SubSeq(s, 1, Len(p)) = p
HasSuffix(s, p) == Len(s) >= Len(p) /\ SubSeq(s, Len(s) - Len(p) + 1, Len(s)) = p

\* strings.TrimSuffix: removes the suffix once, if present
TrimSuffix(s, suffix) ==
    IF HasSuffix(s, suffix) THEN SubSeq(s, 1, Len(s) - Len(suffix)) ELSE s

\* mutant of TrimPrefix: the prefix is left in place
TrimPrefixKept(s, prefix) == s

\* strings.TrimPrefix: removes the prefix once, if present
TrimPrefix(s, prefix) ==
    IF HasPrefix(s, prefix) THEN SubSeq(s, Len(prefix) + 1, Len(s)) ELSE s

\* strings.Index(s, c) for a one-character c, 1-based; 0 when absent
IndexOf(s, c) ==
    IF \E i \in 1..Len(s) : s[i] = c
    THEN CHOOSE i \in 1..Len(s) : s[i] = c /\ \A j \in 1..(i - 1) : s[j] # c
    ELSE 0

----------------------------------------------------------------------------
(* Constants of the package *)

jsonType == "application/json"
xmlType  == "text/xml"
AcceptArgs == {"", jsonType, xmlType}

defaultRequestTimeOut == 30

MethodGet    == "GET"
MethodPost   == "POST"
MethodPut    == "PUT"
MethodDelete == "DELETE"
HTTPMethods  == {MethodGet, MethodPost, MethodPut, MethodDelete}

StatusOK           == 200
StatusFound        == 302
StatusUnauthorized == 401
StatusNotFound     == 404
StatusServerError  == 500
Statuses == {StatusOK, StatusFound, StatusUnauthorized, StatusNotFound, StatusServerError}

\* request bodies (io.Reader): none, or a reader over the fixture document
fixtureBasicJSON == [data |-> "{ \"id\": 1 }"]
Bodies == {Nil, fixtureBasicJSON}

----------------------------------------------------------------------------
(* net/url as used by http.NewRequest: Parse and URL.String *)

Letters == {"a", "b", "h", "p", "t"}

\* the index of the first character of s that is not a letter; Len(s) + 1
\* when there is none
FirstNonLetter(s) ==
    IF \E i \in 1..Len(s) : s[i] \notin Letters
    THEN CHOOSE i \in 1..Len(s) :
            s[i] \notin Letters /\ \A j \in 1..(i - 1) : s[j] \in Letters
    ELSE Len(s) + 1

\* url.getScheme: letters up to a ":" are the scheme; any other character
\* first means there is no scheme
GetScheme(raw) ==
    LET i == FirstNonLetter(raw)
    IN  IF i > 1 /\ i <= Len(raw) /\ raw[i] = ":"
        THEN [scheme |-> SubSeq(raw, 1, i - 1), rest |-> SubSeq(raw, i + 1, Len(raw))]
        ELSE [scheme |-> <<>>, rest |-> raw]

\* url.Parse fails on a control byte anywhere in the raw URL, and on a ":"
\* with no scheme before it
URLParseOK(raw) ==
    /\ \A i \in 1..Len(raw) : raw[i] # DEL
    /\ ~(Len(raw) > 0 /\ raw[1] = ":")

\* url.Parse of a raw URL without query or fragment: after the scheme, a
\* leading "//" opens an authority that runs up to the next "/" (without a
\* scheme, "///" does not open one); the rest is the path
URLParse(raw) ==
    LET s    == GetScheme(raw)
        rest == s.rest
    IN  IF (s.scheme # <<>> \/ ~HasPrefix(rest, <<"/", "/", "/">>))
           /\ HasPrefix(rest, <<"/", "/">>)
        THEN LET authority == SubSeq(rest, 3, Len(rest))
                 i == IndexOf(authority, "/")
             IN  IF i > 0
                 THEN [Scheme |-> s.scheme,
                       Host |-> SubSeq(authority, 1, i - 1),
                       Path |-> SubSeq(authority, i, Len(authority)),
                       RawQuery |-> <<>>]
                 ELSE [Scheme |-> s.scheme, Host |-> authority, Path |-> <<>>,
                       RawQuery |-> <<>>]
        ELSE [Scheme |-> s.scheme, Host |-> <<>>, Path |-> rest, RawQuery |-> <<>>]

\* URL.String
URLString(u) ==
    (IF u.Scheme # <<>> THEN u.Scheme \o <<":">> ELSE <<>>)
    \o (IF (u.Scheme # <<>> \/ u.Host # <<>>) /\ (u.Host # <<>> \/ u.Path # <<>>)
        THEN <<"/", "/">> \o u.Host
        ELSE <<>>)
    \o (IF u.Path # <<>> /\ u.Path[1] # "/" /\ u.Host # <<>> THEN <<"/">> ELSE <<>>)
    \o u.Path
    \o (IF u.RawQuery # <<>> THEN <<"?">> \o u.RawQuery ELSE <<>>)

----------------------------------------------------------------------------
(* context.Context: its identity (kind, parent) and its deadline in seconds *)

NoDeadline == 0

Background   == [kind |-> "background", parent |-> "", deadline |-> NoDeadline]
TODO         == [kind |-> "todo", parent |-> "", deadline |-> NoDeadline]
WithCancel   == [kind |-> "cancel", parent |-> "background", deadline |-> NoDeadline]
WithValue    == [kind |-> "value", parent |-> "background", deadline |-> NoDeadline]
WithDeadline == [kind |-> "timeout", parent |-> "background", deadline |-> 5]

\* the contexts a caller passes to a WithContext verb
CallerContexts == {Background, TODO, WithCancel, WithValue, WithDeadline}

Min(a, b) == IF a < b THEN a ELSE b

\* context.WithTimeout(parent, d)
WithTimeout(parent, d) ==
    [kind |-> "timeout", parent |-> parent.kind,
     deadline |-> IF parent.deadline = NoDeadline THEN d ELSE Min(parent.deadline, d)]

createDefaultContext(ctx) ==
    IF ctx # Nil
    THEN WithTimeout(ctx, defaultRequestTimeOut)
    ELSE WithTimeout(Background, defaultRequestTimeOut)

----------------------------------------------------------------------------
(* encoding/base64 (StdEncoding) as used by Request.SetBasicAuth *)

B64Alphabet ==
    <<"A","B","C","D","E","F","G","H","I","J","K","L","M","N","O","P",
      "Q","R","S","T","U","V","W","X","Y","Z","a","b","c","d","e","f",
      "g","h","i","j","k","l","m","n","o","p","q","r","s","t","u","v",
      "w","x","y","z","0","1","2","3","4","5","6","7","8","9","+","/">>

B64Char(n) == B64Alphabet[n + 1]

RECURSIVE EncodeToString(_)
EncodeToString(s) ==
    IF Len(s) = 0 THEN <<>>
    ELSE IF Len(s) = 1 THEN
        LET n == ByteOf(s[1]) * 65536
        IN  <<B64Char(n \div 262144), B64Char((n \div 4096) % 64), "=", "=">>
    ELSE IF Len(s) = 2 THEN
        LET n == ByteOf(s[1]) * 65536 + ByteOf(s[2]) * 256
        IN  <<B64Char(n \div 262144), B64Char((n \div 4096) % 64),
              B64Char((n \div 64) % 64), "=">>
    ELSE
        LET n == ByteOf(s[1]) * 65536 + ByteOf(s[2]) * 256 + ByteOf(s[3])
        IN  <<B64Char(n \div 262144), B64Char((n \div 4096) % 64),
              B64Char((n \div 64) % 64), B64Char(n % 64)>>
            \o EncodeToString(SubSeq(s, 4, Len(s)))

\* http.basicAuth: base64 of "username:password"
basicAuth(username, password) == EncodeToString(username \o <<":">> \o password)

----------------------------------------------------------------------------
(* net/http: Header.Set, NewRequest, Request.WithContext, Request.SetBasicAuth *)

NoHeader == <<>>

HeaderSet(h, key, value) ==
    [k \in DOMAIN h \cup {key} |-> IF k = key THEN value ELSE h[k]]

\* http.NewRequest(method, url, body): an empty method means GET; the method
\* must be a valid token and the URL must parse.  The new request carries
\* context.Background().
NewRequest(method, rawurl, body) ==
    LET m == IF method = "" THEN MethodGet ELSE method
    IN  IF m \notin HTTPMethods
        THEN [req |-> Nil, err |-> [type |-> "invalid method", URL |-> rawurl]]
        ELSE IF ~URLParseOK(rawurl)
        THEN [req |-> Nil, err |-> [type |-> "url.Error", URL |-> rawurl]]
        ELSE [req |-> [Method |-> m, URL |-> URLParse(rawurl), Body |-> body,
                       Header |-> NoHeader, ctx |-> Background],
              err |-> Nil]

\* Request.WithContext(ctx): a shallow copy of the request carrying ctx
RequestWithContext(r, ctx) == [r EXCEPT !.ctx = ctx]

\* Request.SetBasicAuth(username, password)
SetBasicAuth(r, username, password) ==
    [r EXCEPT !.Header = HeaderSet(@, "Authorization",
                             <<"B", "a", "s", "i", "c", " ">> \o basicAuth(username, password))]

----------------------------------------------------------------------------
(* HttpConfig and the constructors *)

\* mutant of NewHttpConfig: the accept argument is copied without defaulting
NewHttpConfigVerbatim(baseURL, username, password, accept) ==
    [baseURL |-> baseURL, username |-> username, password |-> password,
     accept |-> accept]

NewHttpConfig(baseURL, username, password, accept) ==
    LET config == [baseURL |-> baseURL, username |-> username,
                   password |-> password, accept |-> jsonType]
    IN  IF accept # "" THEN [config EXCEPT !.accept = accept] ELSE config

NewDefaultHttpConfig(baseURL) == NewHttpConfig(baseURL, <<>>, <<>>, jsonType)

\* the http.Client the package builds: pooled transport, 30s overall timeout
pooledClient == [Transport |-> "pooled", Timeout |-> defaultRequestTimeOut]

\* an http.Client supplied by the caller
customClient == [Transport |-> "custom", Timeout |-> 0]

\* each constructor yields the client it returns, or panics
NewDefaultHttpClient(baseURL) ==
    [panic |-> FALSE,
     client |-> [client |-> pooledClient, config |-> NewDefaultHttpConfig(baseURL)]]

NewHttpClientWithConfig(config) ==
    IF config = Nil
    THEN [panic |-> TRUE, client |-> Nil]
    ELSE [panic |-> FALSE, client |-> [client |-> pooledClient, config |-> config]]

\* mutant of NewHttpClientWithConfigAndClient: the http client is not checked
NewHttpClientWithConfigAndClientUnchecked(config, httpClient) ==
    IF config = Nil
    THEN [panic |-> TRUE, client |-> Nil]
    ELSE [panic |-> FALSE, client |-> [client |-> httpClient, config |-> config]]

NewHttpClientWithConfigAndClient(config, httpClient) ==
    IF config = Nil
    THEN [panic |-> TRUE, client |-> Nil]
    ELSE IF httpClient = Nil
    THEN [panic |-> TRUE, client |-> Nil]
    ELSE [panic |-> FALSE, client |-> [client |-> httpClient, config |-> config]]

----------------------------------------------------------------------------
(* The request assembler *)

\* mutant of createRequest: basic auth is applied when either credential is set
createRequestEitherCredential(ctx, baseURL, endpoint, method, body, username, password) ==
    LET base == TrimSuffix(baseURL, <<"/">>)
        ep   == TrimPrefix(endpoint, <<"/">>)
        new  == NewRequest(method, base \o <<"/">> \o ep, body)
    IN  IF new.err # Nil
        THEN [req |-> new.req, err |-> new.err]
        ELSE LET r1 == [new.req EXCEPT !.Header = HeaderSet(@, "Content-Type", jsonType)]
                 r2 == [r1 EXCEPT !.Header = HeaderSet(@, "Accept", jsonType)]
                 r3 == IF username # <<>> \/ password # <<>>
                       THEN SetBasicAuth(r2, username, password)
                       ELSE r2
             IN  [req |-> r3, err |-> Nil]

createRequest(ctx, baseURL, endpoint, method, body, username, password) ==
    LET base == TrimSuffix(baseURL, <<"/">>)
        ep   == TrimPrefix(endpoint, <<"/">>)
        new  == NewRequest(method, base \o <<"/">> \o ep, body)
    IN  IF new.err # Nil
        THEN [req |-> new.req, err |-> new.err]
        ELSE LET r1 == [new.req EXCEPT !.Header = HeaderSet(@, "Content-Type", jsonType)]
                 r2 == [r1 EXCEPT !.Header = HeaderSet(@, "Accept", jsonType)]
                 r3 == IF username # <<>> /\ password # <<>>
                       THEN SetBasicAuth(r2, username, password)
                       ELSE r2
             IN  [req |-> r3, err |-> Nil]

\* GetRequest, PostRequest, PutRequest, DeleteRequest
\* mutant of GetRequest: the configured accept value is written to the headers
GetRequestConfiguredAccept(h, path) ==
    LET c == createRequest(Nil, h.config.baseURL, path, MethodGet, Nil,
                           h.config.username, h.config.password)
    IN  IF c.err # Nil THEN c
        ELSE [c EXCEPT !.req.Header =
                HeaderSet(HeaderSet(@, "Content-Type", h.config.accept),
                          "Accept", h.config.accept)]

GetRequest(h, path) ==
    createRequest(Nil, h.config.baseURL, path, MethodGet, Nil, h.config.username, h.config.password)

PostRequest(h, path, body) ==
    createRequest(Nil, h.config.baseURL, path, MethodPost, body, h.config.username, h.config.password)

PutRequest(h, path, body) ==
    createRequest(Nil, h.config.baseURL, path, MethodPut, body, h.config.username, h.config.password)

DeleteRequest(h, path) ==
    createRequest(Nil, h.config.baseURL, path, MethodDelete, Nil, h.config.username, h.config.password)

----------------------------------------------------------------------------
(* The transport: what client.Do answers for one dispatched request.       *)
(* A reply is either a transport error (no response) or a response with a  *)
(* status and a body.                                                      *)

TransportError == [err |-> [type |-> "transport error"], status |-> 0, body |-> ""]

Replies ==
    {TransportError}
    \cup {[err |-> Nil, status |-> StatusOK, body |-> b] : b \in {"", fixtureBasicJSON.data}}
    \cup {[err |-> Nil, status |-> s, body |-> ""] : s \in Statuses \ {StatusOK}}

\* client.Do(r) under the given reply
Do(r, reply) ==
    IF reply.err # Nil
    THEN [resp |-> Nil, err |-> reply.err]
    ELSE [resp |-> [StatusCode |-> reply.status, Body |-> reply.body, Request |-> r],
          err |-> Nil]

----------------------------------------------------------------------------
(* Executor.  An outcome records the requests handed to the transport,     *)
(* whether the process was terminated by log.Fatal, and the values         *)
(* returned to the caller.                                                 *)

\* the status classification of handleError, after its log.Fatal
classify(resp) ==
    IF resp.StatusCode = StatusUnauthorized
    THEN [resp |-> resp,
          err |-> [type |-> "UnauthorizedError", Message |-> "Authentication required.",
                   URL |-> URLString(resp.Request.URL)]]
    ELSE IF resp.StatusCode = StatusNotFound
    THEN [resp |-> resp,
          err |-> [type |-> "NotFoundError", Message |-> "Resource not found.",
                   URL |-> URLString(resp.Request.URL)]]
    ELSE [resp |-> resp,
          err |-> [type |-> "RemoteError", Host |-> resp.Request.URL.Host,
                   Status |-> resp.StatusCode, URL |-> URLString(resp.Request.URL)]]

\* log.Fatal(error) prints the error and calls os.Exit(1): nothing after it runs
handleError(resp, error) ==
    [exit |-> TRUE, resp |-> Nil, err |-> Nil]

\* mutant of ExecuteRequest: every status from 400 up is classified as an error
ExecuteRequestClassifying(h, r, reply) ==
    LET r1 == IF r.ctx = Background
              THEN RequestWithContext(r, createDefaultContext(r.ctx))
              ELSE r
        d  == Do(r1, reply)
    IN  IF d.err # Nil
        THEN [sent |-> <<r1>>] @@ handleError(d.resp, d.err)
        ELSE IF d.resp.StatusCode >= 400
        THEN [sent |-> <<r1>>, exit |-> FALSE] @@ classify(d.resp)
        ELSE [sent |-> <<r1>>, exit |-> FALSE, resp |-> d.resp, err |-> Nil]

ExecuteRequest(h, r, reply) ==
    LET r1 == IF r.ctx = Background
              THEN RequestWithContext(r, createDefaultContext(r.ctx))
              ELSE r
        d  == Do(r1, reply)
    IN  IF d.err # Nil
        THEN [sent |-> <<r1>>] @@ handleError(d.resp, d.err)
        ELSE [sent |-> <<r1>>, exit |-> FALSE, resp |-> d.resp, err |-> Nil]

----------------------------------------------------------------------------
(* Verb methods *)

\* mutant of GetFromWithContext: a construction error is handed to handleError
GetFromWithContextFatal(h, ctx, path, reply) ==
    LET c == createRequest(ctx, h.config.baseURL, path, MethodGet, Nil,
                           h.config.username, h.config.password)
    IN  IF c.err # Nil
        THEN [sent |-> <<>>] @@ handleError(Nil, c.err)
        ELSE ExecuteRequest(h, RequestWithContext(c.req, ctx), reply)

GetFromWithContext(h, ctx, path, reply) ==
    LET c == createRequest(ctx, h.config.baseURL, path, MethodGet, Nil,
                           h.config.username, h.config.password)
    IN  IF c.err # Nil
        THEN [sent |-> <<>>, exit |-> FALSE, resp |-> Nil, err |-> c.err]
        ELSE ExecuteRequest(h, RequestWithContext(c.req, ctx), reply)

PostToWithContext(h, ctx, path, body, reply) ==
    LET c == createRequest(ctx, h.config.baseURL, path, MethodPost, body,
                           h.config.username, h.config.password)
    IN  IF c.err # Nil
        THEN [sent |-> <<>>, exit |-> FALSE, resp |-> Nil, err |-> c.err]
        ELSE ExecuteRequest(h, RequestWithContext(c.req, ctx), reply)

\* mutant of PutToWithContext: a 5xx response is retried once
PutToWithContextRetrying(h, ctx, path, body, reply) ==
    LET c == createRequest(ctx, h.config.baseURL, path, MethodPut, body,
                           h.config.username, h.config.password)
        first == ExecuteRequest(h, RequestWithContext(c.req, ctx), reply)
    IN  IF c.err # Nil
        THEN [sent |-> <<>>, exit |-> FALSE, resp |-> Nil, err |-> c.err]
        ELSE IF ~first.exit /\ first.resp.StatusCode >= 500
        THEN [first EXCEPT !.sent = @ \o first.sent]
        ELSE first

PutToWithContext(h, ctx, path, body, reply) ==
    LET c == createRequest(ctx, h.config.baseURL, path, MethodPut, body,
                           h.config.username, h.config.password)
    IN  IF c.err # Nil
        THEN [sent |-> <<>>, exit |-> FALSE, resp |-> Nil, err |-> c.err]
        ELSE ExecuteRequest(h, RequestWithContext(c.req, ctx), reply)

DeleteFromWithContext(h, ctx, path, reply) ==
    LET c == createRequest(ctx, h.config.baseURL, path, MethodDelete, Nil,
                           h.config.username, h.config.password)
    IN  IF c.err # Nil
        THEN [sent |-> <<>>, exit |-> FALSE, resp |-> Nil, err |-> c.err]
        ELSE ExecuteRequest(h, RequestWithContext(c.req, ctx), reply)

GetFrom(h, path, reply) == GetFromWithContext(h, Background, path, reply)

\* mutant of PostTo: the body is dropped
PostToWithoutBody(h, path, body, reply) == PostToWithContext(h, Background, path, Nil, reply)

PostTo(h, path, body, reply) == PostToWithContext(h, Background, path, body, reply)

PutTo(h, path, body, reply) == PutToWithContext(h, Background, path, body, reply)

DeleteFrom(h, path, reply) == DeleteFromWithContext(h, Background, path, reply)

----------------------------------------------------------------------------
(* Initial values *)

\* the callers that share one client
Callers == {"c1", "c2"}

\* a caller that is in no call
Idle == [pc |-> "idle"]
NoThreads == [c \in Callers |-> Idle]

NoCall   == [op |-> "none"]
NoReturn == [none |-> TRUE]
NoBuilder == [method |-> "", path |-> <<>>, queryParams |-> Nil, body |-> Nil,
              accept |-> ""]

\* the configurations a caller can make with NewHttpConfig
Configs ==
    {NewHttpConfig(b, u, p, a) :
        b \in BaseURLs, u \in Usernames, p \in Passwords, a \in AcceptArgs}

\* the helper of the tests: a JSON configuration without credentials handed
\* to NewHttpClientWithConfig
createTestHTTPClient(baseURL) ==
    NewHttpClientWithConfig(NewHttpConfig(baseURL, <<>>, <<>>, jsonType)).client

----------------------------------------------------------------------------
(* Specification of the client: one constructed client, then any sequence  *)
(* of verb calls and ExecuteRequest calls while the process runs.  The     *)
(* caller is sequential: it makes a call, receives what the call returns   *)
(* (Resume) and makes the next call.                                       *)

Init ==
    /\ proc = "running"
    /\ cfg = Nil
    /\ client \in {createTestHTTPClient(b) : b \in BaseURLs}
    /\ call = NoCall
    /\ sent = <<>>
    /\ ret = NoReturn
    /\ rb = NoBuilder
    /\ threads = NoThreads

\* the effect of a call with outcome out on the caller and the process
Returns(c, out) ==
    /\ call' = c
    /\ sent' = out.sent
    /\ proc' = IF out.exit THEN "exited" ELSE proc
    /\ ret' = IF out.exit THEN NoReturn ELSE [resp |-> out.resp, err |-> out.err]
    /\ UNCHANGED <<cfg, client, rb, threads>>

CallGetFrom ==
    /\ proc = "running"
    /\ call = NoCall
    /\ \E path \in Paths, reply \in Replies :
         Returns([op |-> "GetFrom", ctx |-> Nil, path |-> path, body |-> Nil,
                  reply |-> reply],
                 GetFrom(client, path, reply))

CallPostTo ==
    /\ proc = "running"
    /\ call = NoCall
    /\ \E path \in Paths, body \in Bodies, reply \in Replies :
         Returns([op |-> "PostTo", ctx |-> Nil, path |-> path, body |-> body,
                  reply |-> reply],
                 PostTo(client, path, body, reply))

CallPutTo ==
    /\ proc = "running"
    /\ call = NoCall
    /\ \E path \in Paths, body \in Bodies, reply \in Replies :
         Returns([op |-> "PutTo", ctx |-> Nil, path |-> path, body |-> body,
                  reply |-> reply],
                 PutTo(client, path, body, reply))

CallDeleteFrom ==
    /\ proc = "running"
    /\ call = NoCall
    /\ \E path \in Paths, reply \in Replies :
         Returns([op |-> "DeleteFrom", ctx |-> Nil, path |-> path, body |-> Nil,
                  reply |-> reply],
                 DeleteFrom(client, path, reply))

CallGetFromWithContext ==
    /\ proc = "running"
    /\ call = NoCall
    /\ \E ctx \in CallerContexts, path \in Paths, reply \in Replies :
         Returns([op |-> "GetFromWithContext", ctx |-> ctx, path |-> path,
                  body |-> Nil, reply |-> reply],
                 GetFromWithContext(client, ctx, path, reply))

CallPostToWithContext ==
    /\ proc = "running"
    /\ call = NoCall
    /\ \E ctx \in CallerContexts, path \in Paths, body \in Bodies, reply \in Replies :
         Returns([op |-> "PostToWithContext", ctx |-> ctx, path |-> path,
                  body |-> body, reply |-> reply],
                 PostToWithContext(client, ctx, path, body, reply))

CallPutToWithContext ==
    /\ proc = "running"
    /\ call = NoCall
    /\ \E ctx \in CallerContexts, path \in Paths, body \in Bodies, reply \in Replies :
         Returns([op |-> "PutToWithContext", ctx |-> ctx, path |-> path,
                  body |-> body, reply |-> reply],
                 PutToWithContext(client, ctx, path, body, reply))

CallDeleteFromWithContext ==
    /\ proc = "running"
    /\ call = NoCall
    /\ \E ctx \in CallerContexts, path \in Paths, reply \in Replies :
         Returns([op |-> "DeleteFromWithContext", ctx |-> ctx, path |-> path,
                  body |-> Nil, reply |-> reply],
                 DeleteFromWithContext(client, ctx, path, reply))

\* the requests a caller obtains from GetRequest, PostRequest, PutRequest and
\* DeleteRequest of client h
BuiltRequests(h) ==
    {c.req : c \in {x \in {GetRequest(h, p) : p \in Paths}
                         \cup {DeleteRequest(h, p) : p \in Paths}
                         \cup {PostRequest(h, p, b) : p \in Paths, b \in Bodies}
                         \cup {PutRequest(h, p, b) : p \in Paths, b \in Bodies} :
                    x.err = Nil}}

\* manual dispatch: a request obtained from a *Request method is executed
CallExecuteRequest ==
    /\ proc = "running"
    /\ call = NoCall
    /\ \E r \in BuiltRequests(client), reply \in Replies :
         Returns([op |-> "ExecuteRequest", req |-> r, reply |-> reply],
                 ExecuteRequest(client, r, reply))

\* the caller has taken the returned values and is ready for its next call
Resume ==
    /\ proc = "running"
    /\ call # NoCall
    /\ call' = NoCall
    /\ sent' = <<>>
    /\ ret' = NoReturn
    /\ UNCHANGED <<proc, cfg, client, rb, threads>>

Next ==
    \/ CallGetFrom
    \/ CallPostTo
    \/ CallPutTo
    \/ CallDeleteFrom
    \/ CallGetFromWithContext
    \/ CallPostToWithContext
    \/ CallPutToWithContext
    \/ CallDeleteFromWithContext
    \/ CallExecuteRequest
    \/ Resume

Spec == Init /\ [][Next]_vars

----------------------------------------------------------------------------
(* Specification of the assembler: a client over any configuration, and    *)
(* the *Request methods, which build a request without executing it.       *)

InitAssemble ==
    /\ proc = "running"
    /\ cfg = Nil
    /\ client \in {NewHttpClientWithConfig(c).client : c \in Configs}
    /\ call = NoCall
    /\ sent = <<>>
    /\ ret = NoReturn
    /\ rb = NoBuilder
    /\ threads = NoThreads

\* a *Request method returns the request and the construction error
ReturnsRequest(c, out) ==
    /\ call' = c
    /\ ret' = [req |-> out.req, err |-> out.err]
    /\ UNCHANGED <<proc, cfg, client, sent, rb, threads>>

CallGetRequest ==
    /\ proc = "running"
    /\ call = NoCall
    /\ \E path \in Paths :
         ReturnsRequest([op |-> "GetRequest", path |-> path, body |-> Nil],
                        GetRequest(client, path))

CallPostRequest ==
    /\ proc = "running"
    /\ call = NoCall
    /\ \E path \in Paths, body \in Bodies :
         ReturnsRequest([op |-> "PostRequest", path |-> path, body |-> body],
                        PostRequest(client, path, body))

CallPutRequest ==
    /\ proc = "running"
    /\ call = NoCall
    /\ \E path \in Paths, body \in Bodies :
         ReturnsRequest([op |-> "PutRequest", path |-> path, body |-> body],
                        PutRequest(client, path, body))

CallDeleteRequest ==
    /\ proc = "running"
    /\ call = NoCall
    /\ \E path \in Paths :
         ReturnsRequest([op |-> "DeleteRequest", path |-> path, body |-> Nil],
                        DeleteRequest(client, path))

NextAssemble ==
    \/ CallGetRequest
    \/ CallPostRequest
    \/ CallPutRequest
    \/ CallDeleteRequest
    \/ Resume

SpecAssemble == InitAssemble /\ [][NextAssemble]_vars

----------------------------------------------------------------------------
(* Specification of construction: the caller makes a configuration, then   *)
(* a client from it (or from nil arguments).                               *)

InitConfig ==
    /\ proc = "running"
    /\ cfg = Nil
    /\ client = Nil
    /\ call = NoCall
    /\ sent = <<>>
    /\ ret = NoReturn
    /\ rb = NoBuilder
    /\ threads = NoThreads

CallNewHttpConfig ==
    /\ proc = "running"
    /\ cfg = Nil
    /\ client = Nil
    /\ \E b \in BaseURLs, u \in Usernames, p \in Passwords, a \in AcceptArgs :
         /\ call' = [op |-> "NewHttpConfig", baseURL |-> b, username |-> u,
                     password |-> p, accept |-> a]
         /\ cfg' = NewHttpConfig(b, u, p, a)
         /\ ret' = [config |-> NewHttpConfig(b, u, p, a)]
    /\ UNCHANGED <<proc, client, sent, rb, threads>>

CallNewDefaultHttpConfig ==
    /\ proc = "running"
    /\ cfg = Nil
    /\ client = Nil
    /\ \E b \in BaseURLs :
         /\ call' = [op |-> "NewDefaultHttpConfig", baseURL |-> b]
         /\ cfg' = NewDefaultHttpConfig(b)
         /\ ret' = [config |-> NewDefaultHttpConfig(b)]
    /\ UNCHANGED <<proc, client, sent, rb, threads>>

\* a constructor returns its client, or the panic unwinds the process
Constructs(c, out) ==
    /\ call' = c
    /\ proc' = IF out.panic THEN "panicked" ELSE proc
    /\ client' = IF out.panic THEN client ELSE out.client
    /\ ret' = IF out.panic THEN NoReturn ELSE [client |-> out.client]
    /\ UNCHANGED <<cfg, sent, rb, threads>>

CallNewDefaultHttpClient ==
    /\ proc = "running"
    /\ client = Nil
    /\ \E b \in BaseURLs :
         Constructs([op |-> "NewDefaultHttpClient", baseURL |-> b],
                    NewDefaultHttpClient(b))

CallNewHttpClientWithConfig ==
    /\ proc = "running"
    /\ client = Nil
    /\ \E c \in {cfg, Nil} :
         Constructs([op |-> "NewHttpClientWithConfig", config |-> c],
                    NewHttpClientWithConfig(c))

CallNewHttpClientWithConfigAndClient ==
    /\ proc = "running"
    /\ client = Nil
    /\ \E c \in {cfg, Nil}, hc \in {customClient, Nil} :
         Constructs([op |-> "NewHttpClientWithConfigAndClient", config |-> c,
                     client |-> hc],
                    NewHttpClientWithConfigAndClient(c, hc))

NextConfig ==
    \/ CallNewHttpConfig
    \/ CallNewDefaultHttpConfig
    \/ CallNewDefaultHttpClient
    \/ CallNewHttpClientWithConfig
    \/ CallNewHttpClientWithConfigAndClient

SpecConfig == InitConfig /\ [][NextConfig]_vars

----------------------------------------------------------------------------
(* net/url: QueryEscape and Values.Encode, as used by requestBuilder.Build *)

HexDigits == <<"0","1","2","3","4","5","6","7","8","9","A","B","C","D","E","F">>

\* letters and digits are written as they are, a space becomes "+", any
\* other byte becomes %XX
EscapeChar(c) ==
    IF c \in {"a", "b", "p", "1"} THEN <<c>>
    ELSE IF c = " " THEN <<"+">>
    ELSE <<"%", HexDigits[(ByteOf(c) \div 16) + 1], HexDigits[(ByteOf(c) % 16) + 1]>>

RECURSIVE QueryEscape(_)
QueryEscape(s) ==
    IF s = <<>> THEN <<>> ELSE EscapeChar(s[1]) \o QueryEscape(SubSeq(s, 2, Len(s)))

\* byte-wise string order, as sort.Strings uses
RECURSIVE StrLess(_, _)
StrLess(s, t) ==
    IF t = <<>> THEN FALSE
    ELSE IF s = <<>> THEN TRUE
    ELSE IF ByteOf(s[1]) # ByteOf(t[1]) THEN ByteOf(s[1]) < ByteOf(t[1])
    ELSE StrLess(SubSeq(s, 2, Len(s)), SubSeq(t, 2, Len(t)))

\* mutant of SortedKeys: the keys in descending order
RECURSIVE SortedKeysDescending(_)
SortedKeysDescending(ks) ==
    IF ks = {} THEN <<>>
    ELSE LET m == CHOOSE k \in ks : \A o \in ks \ {k} : StrLess(o, k)
         IN  <<m>> \o SortedKeysDescending(ks \ {m})

\* the keys of a set in ascending order
RECURSIVE SortedKeys(_)
SortedKeys(ks) ==
    IF ks = {} THEN <<>>
    ELSE LET m == CHOOSE k \in ks : \A o \in ks \ {k} : StrLess(k, o)
         IN  <<m>> \o SortedKeys(ks \ {m})

\* url.Values maps a key to the list of its values; Values.Add appends
NoValues == <<>>

ValuesAdd(v, key, value) ==
    [k \in DOMAIN v \cup {key} |->
        IF k = key
        THEN (IF key \in DOMAIN v THEN v[key] ELSE <<>>) \o <<value>>
        ELSE v[k]]

\* the pairs "k=v" of one key, one per value, joined by "&"
RECURSIVE EncodeKey(_, _)
EncodeKey(key, vals) ==
    IF vals = <<>> THEN <<>>
    ELSE QueryEscape(key) \o <<"=">> \o QueryEscape(vals[1])
         \o (IF Len(vals) > 1 THEN <<"&">> ELSE <<>>)
         \o EncodeKey(key, Tail(vals))

\* Values.Encode: the pairs of every key, in key order, joined by "&"
RECURSIVE EncodePairs(_, _)
EncodePairs(v, keys) ==
    IF keys = <<>> THEN <<>>
    ELSE EncodeKey(keys[1], v[keys[1]])
         \o (IF Len(keys) > 1 THEN <<"&">> ELSE <<>>)
         \o EncodePairs(v, Tail(keys))

Encode(v) == EncodePairs(v, SortedKeys(DOMAIN v))

\* the segments of s between the occurrences of the character c
RECURSIVE SplitOn(_, _)
SplitOn(s, c) ==
    LET i == IndexOf(s, c)
    IN  IF i = 0 THEN <<s>>
        ELSE <<SubSeq(s, 1, i - 1)>> \o SplitOn(SubSeq(s, i + 1, Len(s)), c)

AllChars == {" ", "&", "/", "1", ":", "a", "b", "h", "p", "t", DEL}

HexValue(d) == (CHOOSE i \in 1..16 : HexDigits[i] = d) - 1

\* url.QueryUnescape: "+" is a space, %XX is the byte XX
RECURSIVE QueryUnescape(_)
QueryUnescape(s) ==
    IF s = <<>> THEN <<>>
    ELSE IF s[1] = "+" THEN <<" ">> \o QueryUnescape(SubSeq(s, 2, Len(s)))
    ELSE IF s[1] = "%" /\ Len(s) >= 3
    THEN <<CHOOSE c \in AllChars : ByteOf(c) = 16 * HexValue(s[2]) + HexValue(s[3])>>
         \o QueryUnescape(SubSeq(s, 4, Len(s)))
    ELSE <<s[1]>> \o QueryUnescape(SubSeq(s, 2, Len(s)))

\* url.ParseQuery: every non-empty segment between "&" is cut at its first
\* "=" into a key and a value, which are unescaped and added
RECURSIVE ParseSegments(_, _)
ParseSegments(segs, v) ==
    IF segs = <<>> THEN v
    ELSE IF segs[1] = <<>> THEN ParseSegments(Tail(segs), v)
    ELSE LET i == IndexOf(segs[1], "=")
             k == IF i = 0 THEN segs[1] ELSE SubSeq(segs[1], 1, i - 1)
             x == IF i = 0 THEN <<>> ELSE SubSeq(segs[1], i + 1, Len(segs[1]))
         IN  ParseSegments(Tail(segs), ValuesAdd(v, QueryUnescape(k), QueryUnescape(x)))

ParseQuery(query) == ParseSegments(SplitOn(query, "&"), NoValues)

\* URL.Query
URLQuery(u) == ParseQuery(u.RawQuery)

----------------------------------------------------------------------------
(* The request builder *)

NewRequestBuilder == NoBuilder

Get(b)    == [b EXCEPT !.method = MethodGet]
Post(b)   == [b EXCEPT !.method = MethodPost]
Put(b)    == [b EXCEPT !.method = MethodPut]
Delete(b) == [b EXCEPT !.method = MethodDelete]

Path(b, path) == [b EXCEPT !.path = path]

WithContent(b, body) == [b EXCEPT !.body = body]

AsJson(b) == [b EXCEPT !.accept = jsonType]

\* a non-nil map is the record of its entries
MakeMap == [entries |-> <<>>]

\* mutant of QueryParam: a key that is already set keeps its value
QueryParamFirstWins(b, key, value) ==
    LET m == IF b.queryParams = Nil THEN MakeMap ELSE b.queryParams
    IN  [b EXCEPT !.queryParams =
            [entries |-> [k \in DOMAIN m.entries \cup {key} |->
                            IF k \in DOMAIN m.entries THEN m.entries[k] ELSE value]]]

\* a nil map is made first; then the key is set
QueryParam(b, key, value) ==
    LET m == IF b.queryParams = Nil THEN MakeMap ELSE b.queryParams
    IN  [b EXCEPT !.queryParams =
            [entries |-> [k \in DOMAIN m.entries \cup {key} |->
                            IF k = key THEN value ELSE m.entries[k]]]]

\* the orders in which a range loop can visit the keys of a map
Orders(m) ==
    IF m = Nil THEN {<<>>}
    ELSE {o \in [1..Cardinality(DOMAIN m.entries) -> DOMAIN m.entries] :
            \A i, j \in DOMAIN o : i # j => o[i] # o[j]}

\* the range loop of Build: every entry is added, in the order of the visit
RECURSIVE AddAll(_, _, _)
AddAll(v, entries, order) ==
    IF order = <<>> THEN v
    ELSE AddAll(ValuesAdd(v, order[1], entries[order[1]]), entries, Tail(order))

\* Build reads request.URL before it looks at the error of http.NewRequest:
\* with query parameters set and no request made, that is a nil dereference.
\* order is the order in which the range loop visits the map.
Build(b, order) ==
    LET new == NewRequest(b.method, b.path, b.body)
    IN  IF b.queryParams # Nil
        THEN IF new.req = Nil
             THEN [panic |-> TRUE, req |-> Nil, err |-> Nil]
             ELSE LET queryValues == AddAll(URLQuery(new.req.URL),
                                            b.queryParams.entries, order)
                  IN  [panic |-> FALSE,
                       req |-> [new.req EXCEPT !.URL.RawQuery = Encode(queryValues)],
                       err |-> new.err]
        ELSE [panic |-> FALSE, req |-> new.req, err |-> new.err]

----------------------------------------------------------------------------
(* Specification of the builder: one builder, its setters in any order,    *)
(* and Build.                                                              *)

\* the paths given to the builder: empty, "/", "a" and a control byte
BuilderPaths == {p \in Paths : Len(p) <= 1}

InitBuilder ==
    /\ proc = "running"
    /\ cfg = Nil
    /\ client = Nil
    /\ call = NoCall
    /\ sent = <<>>
    /\ ret = NoReturn
    /\ rb = NewRequestBuilder
    /\ threads = NoThreads

\* a setter changes the builder and returns it
Sets(c, b) ==
    /\ call' = c
    /\ rb' = b
    /\ ret' = NoReturn
    /\ UNCHANGED <<proc, cfg, client, sent, threads>>

CallGet ==
    /\ proc = "running"
    /\ Sets([op |-> "Get"], Get(rb))

CallPost ==
    /\ proc = "running"
    /\ Sets([op |-> "Post"], Post(rb))

CallPut ==
    /\ proc = "running"
    /\ Sets([op |-> "Put"], Put(rb))

CallDelete ==
    /\ proc = "running"
    /\ Sets([op |-> "Delete"], Delete(rb))

CallPath ==
    /\ proc = "running"
    /\ \E path \in BuilderPaths : Sets([op |-> "Path"], Path(rb, path))

CallWithContent ==
    /\ proc = "running"
    /\ \E body \in Bodies : Sets([op |-> "WithContent"], WithContent(rb, body))

CallAsJson ==
    /\ proc = "running"
    /\ Sets([op |-> "AsJson"], AsJson(rb))

CallQueryParam ==
    /\ proc = "running"
    /\ \E key \in Keys, value \in Values :
         /\ Cardinality(DOMAIN QueryParam(rb, key, value).queryParams.entries) <= MaxParams
         /\ Sets([op |-> "QueryParam", key |-> key, value |-> value,
                  replaced |-> /\ rb.queryParams # Nil
                               /\ key \in DOMAIN rb.queryParams.entries
                               /\ rb.queryParams.entries[key] # value],
                 QueryParam(rb, key, value))

CallBuild ==
    /\ proc = "running"
    /\ \E order \in Orders(rb.queryParams) :
       LET out == Build(rb, order)
       IN  /\ call' = [op |-> "Build"]
           /\ proc' = IF out.panic THEN "panicked" ELSE proc
           /\ ret' = IF out.panic THEN NoReturn ELSE [req |-> out.req, err |-> out.err]
    /\ UNCHANGED <<cfg, client, sent, rb, threads>>

NextBuilder ==
    \/ CallGet
    \/ CallPost
    \/ CallPut
    \/ CallDelete
    \/ CallPath
    \/ CallWithContent
    \/ CallAsJson
    \/ CallQueryParam
    \/ CallBuild

SpecBuilder == InitBuilder /\ [][NextBuilder]_vars

----------------------------------------------------------------------------
(* Properties *)

VerbOps == {"GetFrom", "PostTo", "PutTo", "DeleteFrom"}
ContextVerbOps == {"GetFromWithContext", "PostToWithContext", "PutToWithContext",
                   "DeleteFromWithContext"}
ExecOps == VerbOps \cup ContextVerbOps \cup {"ExecuteRequest"}
RequestOps == {"GetRequest", "PostRequest", "PutRequest", "DeleteRequest"}

\* the last call handed a request to the transport
Dispatched == call.op \in ExecOps /\ sent # <<>>

\* the context of the request the last call passed to ExecuteRequest
PassedContext ==
    IF call.op \in VerbOps THEN Background
    ELSE IF call.op = "ExecuteRequest" THEN call.req.ctx
    ELSE call.ctx

\* C1: when the transport fails to deliver a request, the call returns that
\* failure to the caller as an error value and the process keeps running.
C1_TransportErrorIsReturned ==
    (Dispatched /\ call.reply.err # Nil) =>
        (proc = "running" /\ ret # NoReturn /\ ret.err = call.reply.err)

\* C2: a delivered response with status 401 yields an UnauthorizedError
\* "Authentication required." carrying the request URL, and one with status
\* 404 a NotFoundError "Resource not found." carrying the request URL.
C2_StatusIsClassified ==
    (Dispatched /\ call.reply.err = Nil) =>
        /\ call.reply.status = StatusUnauthorized =>
             ret.err = [type |-> "UnauthorizedError",
                        Message |-> "Authentication required.",
                        URL |-> URLString(sent[1].URL)]
        /\ call.reply.status = StatusNotFound =>
             ret.err = [type |-> "NotFoundError",
                        Message |-> "Resource not found.",
                        URL |-> URLString(sent[1].URL)]

\* C3: a request whose context has no deadline reaches the transport with a
\* deadline; a request whose context has a deadline reaches it with that
\* context unchanged.
C3_DefaultDeadlineApplied ==
    Dispatched =>
        /\ PassedContext.deadline = NoDeadline => sent[1].ctx.deadline # NoDeadline
        /\ PassedContext.deadline # NoDeadline => sent[1].ctx = PassedContext

----------------------------------------------------------------------------
(* C4: URL assembly *)

\* C4: for a base URL ending in at most one slash and a path starting with at
\* most one slash, the assembled URL is the base without its trailing slash,
\* one "/", and the path without its leading slash: whenever the base is b or
\* b/ and the path is p or /p (b not ending, p not starting with a slash), the
\* URL is b/p.
C4_SingleSeparatingSlash ==
    (call.op \in RequestOps /\ ret.err = Nil) =>
        \A b \in BaseURLs, p \in Paths :
            ( /\ ~HasSuffix(b, <<"/">>)
              /\ ~HasPrefix(p, <<"/">>)
              /\ client.config.baseURL \in {b, b \o <<"/">>}
              /\ call.path \in {p, <<"/">> \o p} )
            => URLString(ret.req.URL) = b \o <<"/">> \o p

\* a base with a trailing slash and a path with a leading slash were joined
C4_Witness ==
    /\ call.op = "GetRequest"
    /\ client.config.baseURL = HTTPOrigin \o <<"a", "/">>
    /\ call.path = <<"/", "a">>
    /\ ret.err = Nil
    /\ URLString(ret.req.URL) = HTTPOrigin \o <<"a", "/", "a">>

----------------------------------------------------------------------------
(* C5: basic authentication *)

Bytes(s) == [i \in 1..Len(s) |-> ByteOf(s[i])]

\* the value of a base64 character; padding counts as 0
B64Value(c) ==
    IF c = "=" THEN 0 ELSE (CHOOSE i \in 1..64 : B64Alphabet[i] = c) - 1

\* the bytes a base64 text stands for
RECURSIVE B64Decode(_)
B64Decode(t) ==
    IF Len(t) < 4 THEN <<>>
    ELSE LET n == B64Value(t[1]) * 262144 + B64Value(t[2]) * 4096
                  + B64Value(t[3]) * 64 + B64Value(t[4])
             three == <<n \div 65536, (n \div 256) % 256, n % 256>>
             keep == IF t[3] = "=" THEN 1 ELSE IF t[4] = "=" THEN 2 ELSE 3
         IN  SubSeq(three, 1, keep) \o B64Decode(SubSeq(t, 5, Len(t)))

BasicPrefix == <<"B", "a", "s", "i", "c", " ">>

\* C5: an assembled request has an Authorization header exactly when username
\* and password are both non-empty, and the header is then "Basic " followed
\* by the base64 text of "username:password".
C5_BasicAuthIffBothCredentials ==
    (call.op \in RequestOps /\ ret.err = Nil) =>
        LET h == ret.req.Header
            u == client.config.username
            p == client.config.password
        IN  IF u # <<>> /\ p # <<>>
            THEN /\ "Authorization" \in DOMAIN h
                 /\ HasPrefix(h["Authorization"], BasicPrefix)
                 /\ Len(h["Authorization"]) % 4 = 2
                 /\ B64Decode(TrimPrefix(h["Authorization"], BasicPrefix))
                      = Bytes(u \o <<":">> \o p)
            ELSE "Authorization" \notin DOMAIN h

\* a request assembled for the credentials aa:p carries "Basic YWE6cA=="
C5_Witness ==
    /\ call.op = "PostRequest"
    /\ client.config.username = <<"a", "a">>
    /\ client.config.password = <<"p">>
    /\ ret.err = Nil
    /\ "Authorization" \in DOMAIN ret.req.Header
    /\ ret.req.Header["Authorization"]
         = BasicPrefix \o <<"Y", "W", "E", "6", "c", "A", "=", "=">>

----------------------------------------------------------------------------
(* C6: pass-through of delivered responses *)

\* C6: a delivered response whose status is neither 401 nor 404 is returned
\* as it came from the transport (same status, same body), with a nil error.
C6_OtherStatusPassesThrough ==
    ( /\ Dispatched
      /\ call.reply.err = Nil
      /\ call.reply.status \notin {StatusUnauthorized, StatusNotFound} )
    => /\ proc = "running"
       /\ ret.err = Nil
       /\ ret.resp.StatusCode = call.reply.status
       /\ ret.resp.Body = call.reply.body
       /\ ret.resp = Do(sent[1], call.reply).resp

\* a 500 response came back from a verb call as a response with a nil error
C6_Witness ==
    /\ call.op = "PutToWithContext"
    /\ sent # <<>>
    /\ call.reply.err = Nil
    /\ call.reply.status = StatusServerError
    /\ ret.err = Nil
    /\ ret.resp.StatusCode = StatusServerError

----------------------------------------------------------------------------
(* C7: Build on an invalid method or path *)

\* C7: whenever the accumulated method or path is invalid for request
\* construction, Build returns a construction error and the process keeps
\* running, also when query parameters have been set.
C7_BuildReturnsConstructionError ==
    (call.op = "Build" /\ ~URLParseOK(rb.path)) =>
        (proc = "running" /\ ret # NoReturn /\ ret.err # Nil)

----------------------------------------------------------------------------
(* C8, C9: construction *)

\* C8: the explicit-config constructors panic, returning nothing, when the
\* configuration (or the http client) is nil; otherwise they return a client
\* holding exactly the supplied configuration (and http client).
C8_NilArgumentPanics ==
    /\ call.op = "NewHttpClientWithConfig" =>
         IF call.config = Nil
         THEN proc = "panicked" /\ ret = NoReturn /\ client = Nil
         ELSE /\ proc = "running"
              /\ ret = [client |-> client]
              /\ client.config = call.config
    /\ call.op = "NewHttpClientWithConfigAndClient" =>
         IF call.config = Nil \/ call.client = Nil
         THEN proc = "panicked" /\ ret = NoReturn /\ client = Nil
         ELSE /\ proc = "running"
              /\ ret = [client |-> client]
              /\ client.config = call.config
              /\ client.client = call.client

\* a configuration was supplied with a nil http client, and the call panicked
C8_Witness ==
    /\ call.op = "NewHttpClientWithConfigAndClient"
    /\ call.config # Nil
    /\ call.client = Nil
    /\ proc = "panicked"

\* C9: NewHttpConfig copies baseURL, username and password and sets accept to
\* "application/json" for an empty accept argument and to the argument
\* otherwise; NewDefaultHttpConfig(baseURL) and the configuration inside
\* NewDefaultHttpClient(baseURL) are NewHttpConfig(baseURL, "", "",
\* "application/json"): no credentials, accept "application/json".
C9_AcceptDefaultsToJson ==
    /\ call.op = "NewHttpConfig" =>
         /\ ret.config = cfg
         /\ cfg.baseURL = call.baseURL
         /\ cfg.username = call.username
         /\ cfg.password = call.password
         /\ cfg.accept = IF call.accept = "" THEN "application/json" ELSE call.accept
    /\ call.op = "NewDefaultHttpConfig" =>
         /\ ret.config = cfg
         /\ cfg = [baseURL |-> call.baseURL, username |-> <<>>, password |-> <<>>,
                   accept |-> "application/json"]
         /\ cfg = NewHttpConfig(call.baseURL, <<>>, <<>>, "application/json")
    /\ call.op = "NewDefaultHttpClient" =>
         /\ client.config = [baseURL |-> call.baseURL, username |-> <<>>,
                             password |-> <<>>, accept |-> "application/json"]
         /\ client.config = NewHttpConfig(call.baseURL, <<>>, <<>>, "application/json")

\* a configuration was made with an empty accept argument
C9_Witness ==
    /\ call.op = "NewHttpConfig"
    /\ call.accept = ""
    /\ call.username # <<>>
    /\ cfg.accept = "application/json"

----------------------------------------------------------------------------
(* C10: verbs and their context-aware variants *)

\* the outcome of the last call, as an outcome record
LastOutcome(out) ==
    /\ sent = out.sent
    /\ (proc = "exited") = out.exit
    /\ ~out.exit => ret = [resp |-> out.resp, err |-> out.err]

\* the request the last call dispatched has this method and body and the URL
\* assembled from the base URL and the path of the call
DispatchedAs(method, body) ==
    sent # <<>> =>
        /\ Len(sent) = 1
        /\ sent[1].Method = method
        /\ sent[1].Body = body
        /\ URLString(sent[1].URL)
             = TrimSuffix(client.config.baseURL, <<"/">>) \o <<"/">>
               \o TrimPrefix(call.path, <<"/">>)

\* C10: each verb method has the outcome of its context-aware variant called
\* with context.Background(), and dispatches GET without body, POST and PUT
\* with the caller's body, DELETE without body, to the assembled URL.
C10_VerbEqualsContextVariant ==
    /\ call.op = "GetFrom" =>
         /\ LastOutcome(GetFromWithContext(client, Background, call.path, call.reply))
         /\ DispatchedAs(MethodGet, Nil)
    /\ call.op = "PostTo" =>
         /\ LastOutcome(PostToWithContext(client, Background, call.path, call.body,
                                          call.reply))
         /\ DispatchedAs(MethodPost, call.body)
    /\ call.op = "PutTo" =>
         /\ LastOutcome(PutToWithContext(client, Background, call.path, call.body,
                                         call.reply))
         /\ DispatchedAs(MethodPut, call.body)
    /\ call.op = "DeleteFrom" =>
         /\ LastOutcome(DeleteFromWithContext(client, Background, call.path, call.reply))
         /\ DispatchedAs(MethodDelete, Nil)

\* PostTo dispatched the caller's body and returned the response
C10_Witness ==
    /\ call.op = "PostTo"
    /\ call.body = fixtureBasicJSON
    /\ sent # <<>>
    /\ sent[1].Method = MethodPost
    /\ sent[1].Body = fixtureBasicJSON
    /\ ret # NoReturn
    /\ ret.resp # Nil

----------------------------------------------------------------------------
(* C11: two query parameters *)

\* the last call was a Build that returned a request
Built == call.op = "Build" /\ proc = "running" /\ ret # NoReturn /\ ret.err = Nil

\* C11: for a valid method and path and two query parameters with distinct
\* keys, Build yields the query string "k1=v1&k2=v2" with k1 the smaller key,
\* whichever of the two QueryParam calls was made first and in whatever order
\* Build visits the map.
C11_TwoParamsAnyOrder ==
    ( /\ Built
      /\ rb.queryParams # Nil
      /\ Cardinality(DOMAIN rb.queryParams.entries) = 2 )
    => LET m  == rb.queryParams.entries
           k1 == CHOOSE k \in DOMAIN m : \A o \in DOMAIN m \ {k} : StrLess(k, o)
           k2 == CHOOSE k \in DOMAIN m : k # k1
           b0 == [rb EXCEPT !.queryParams = Nil]
           expected == QueryEscape(k1) \o <<"=">> \o QueryEscape(m[k1]) \o <<"&">>
                       \o QueryEscape(k2) \o <<"=">> \o QueryEscape(m[k2])
       IN  /\ ret.req.URL.RawQuery = expected
           /\ \A first \in DOMAIN m :
                LET second == CHOOSE k \in DOMAIN m : k # first
                    b == QueryParam(QueryParam(b0, first, m[first]), second, m[second])
                IN  /\ b = rb
                    /\ \A o \in Orders(b.queryParams) :
                         Build(b, o).req.URL.RawQuery = expected

\* Build returned the query string "a=1&b=+" for the parameters b=" " and a="1"
C11_Witness ==
    /\ Built
    /\ rb.queryParams # Nil
    /\ DOMAIN rb.queryParams.entries = {<<"a">>, <<"b">>}
    /\ ret.req.URL.RawQuery = <<"a", "=", "1", "&", "b", "=", "+">>

----------------------------------------------------------------------------
(* C12: fixed media type *)

\* C12: every assembled request has Content-Type and Accept equal to
\* "application/json", whatever accept value the configuration holds.
C12_HeadersAlwaysJson ==
    (call.op \in RequestOps /\ ret.err = Nil) =>
        /\ "Content-Type" \in DOMAIN ret.req.Header
        /\ ret.req.Header["Content-Type"] = "application/json"
        /\ "Accept" \in DOMAIN ret.req.Header
        /\ ret.req.Header["Accept"] = "application/json"

\* a client configured with accept "text/xml" assembled a request with
\* Accept "application/json"
C12_Witness ==
    /\ call.op = "GetRequest"
    /\ client.config.accept = "text/xml"
    /\ ret.err = Nil
    /\ ret.req.Header["Accept"] = "application/json"
    /\ ret.req.Header["Content-Type"] = "application/json"

----------------------------------------------------------------------------
(* C13: construction errors *)

\* what the *Request method of the same verb returns for the arguments of
\* verb call c
AssemblyOf(c) ==
    CASE c.op \in {"GetFrom", "GetFromWithContext"}       -> GetRequest(client, c.path)
      [] c.op \in {"PostTo", "PostToWithContext"}         -> PostRequest(client, c.path, c.body)
      [] c.op \in {"PutTo", "PutToWithContext"}           -> PutRequest(client, c.path, c.body)
      [] c.op \in {"DeleteFrom", "DeleteFromWithContext"} -> DeleteRequest(client, c.path)

AssemblyFailed ==
    /\ call.op \in VerbOps \cup ContextVerbOps
    /\ AssemblyOf(call).err # Nil

\* C13: when assembly fails, a verb method or WithContext variant returns a
\* nil response and the construction error of the matching *Request method;
\* the process keeps running and nothing is dispatched.
C13_ConstructionErrorReturned ==
    AssemblyFailed =>
        /\ proc = "running"
        /\ sent = <<>>
        /\ ret # NoReturn
        /\ ret.resp = Nil
        /\ ret.err = AssemblyOf(call).err

\* PutToWithContext on a path holding a control byte came back with the
\* construction error
C13_Witness ==
    /\ call.op = "PutToWithContext"
    /\ DEL \in {call.path[i] : i \in DOMAIN call.path}
    /\ AssemblyFailed
    /\ proc = "running"
    /\ sent = <<>>
    /\ ret # NoReturn
    /\ ret.resp = Nil
    /\ ret.err # Nil

----------------------------------------------------------------------------
(* C15: one dispatch per call *)

\* C15: a verb call hands its request to the http client exactly once when
\* assembly succeeds and never when it fails; ExecuteRequest hands its
\* request over exactly once; this holds whatever the outcome (response of
\* any status, transport error), so no outcome is followed by a second
\* dispatch of the same call.
C15_AtMostOneDispatch ==
    /\ call.op \in VerbOps \cup ContextVerbOps =>
         Len(sent) = IF AssemblyOf(call).err = Nil THEN 1 ELSE 0
    /\ call.op = "ExecuteRequest" => Len(sent) = 1
    /\ call = NoCall => sent = <<>>

\* PutTo received a 500 response and its request was dispatched once
C15_Witness ==
    /\ call.op = "PutTo"
    /\ ret # NoReturn
    /\ ret.resp # Nil
    /\ ret.resp.StatusCode = StatusServerError
    /\ Len(sent) = 1

----------------------------------------------------------------------------
(* C16: the query parameters are a mapping, last write wins *)

\* the keys of the query parameters of builder b
ParamKeys(b) == IF b.queryParams = Nil THEN {} ELSE DOMAIN b.queryParams.entries

\* a successful Build returns a query string that decodes to exactly the
\* stored mapping, one value per key, and every other Build of the same
\* builder returns the same query string
QueryReflectsParams ==
    Built =>
        LET q == ParseQuery(ret.req.URL.RawQuery)
        IN  /\ DOMAIN q = ParamKeys(rb)
            /\ \A k \in ParamKeys(rb) : q[k] = <<rb.queryParams.entries[k]>>
            /\ \A o \in Orders(rb.queryParams) :
                 /\ ~Build(rb, o).panic
                 /\ Build(rb, o).req.URL.RawQuery = ret.req.URL.RawQuery

\* QueryParam stores its value under its key, replacing an earlier one, and
\* leaves the other keys alone; every other call leaves the mapping unchanged
ParamsStep ==
    /\ call'.op = "QueryParam" =>
         /\ ParamKeys(rb') = ParamKeys(rb) \cup {call'.key}
         /\ rb'.queryParams.entries[call'.key] = call'.value
         /\ \A k \in ParamKeys(rb) \ {call'.key} :
              rb'.queryParams.entries[k] = rb.queryParams.entries[k]
    /\ call'.op \in {"Get", "Post", "Put", "Delete", "Path", "WithContent",
                     "AsJson", "Build"} =>
         rb'.queryParams = rb.queryParams

\* C16: the stored mapping holds, per key ever set, the value of the most
\* recent QueryParam call (only QueryParam changes it, by upsert of its own
\* key), and a successful Build encodes exactly that mapping with one value
\* per key, the same on every Build.
C16_LastWriteWins == []QueryReflectsParams /\ [][ParamsStep]_vars

\* QueryParam has replaced the earlier value of key "a" by "1", and Build
\* now yields "a=1" alone
C16_Witness ==
    /\ call.op = "QueryParam"
    /\ call.replaced
    /\ call.key = <<"a">>
    /\ rb.queryParams.entries = (<<"a">> :> <<"1">>)
    /\ \A o \in Orders(rb.queryParams) :
         /\ ~Build(rb, o).panic
         /\ Build(rb, o).err = Nil
         /\ Build(rb, o).req.URL.RawQuery = <<"a", "=", "1">>

----------------------------------------------------------------------------
(* Specification of concurrent callers: one client, constructed once and   *)
(* shared by the callers.  A call of a verb method takes two steps, the    *)
(* assembly of its request and the dispatch by ExecuteRequest, and the     *)
(* steps of the callers interleave.  log.Fatal ends the whole process.     *)

\* the configurations of the shared client
SharedConfigs ==
    {NewHttpConfig(HTTPOrigin \o s, u, p, jsonType) :
        s \in {<<>>, <<"/">>},
        u \in {x \in Usernames : Len(x) <= 1},
        p \in {x \in Passwords : Len(x) <= 1}}

SharedPaths == {p \in Paths : Len(p) <= 1}

\* the calls the callers make on client h
SharedCalls(h) ==
    {[op |-> o, ctx |-> Nil, path |-> p, body |-> Nil] :
        o \in {"GetFrom", "DeleteFrom", "GetRequest", "DeleteRequest"},
        p \in SharedPaths}
    \cup {[op |-> o, ctx |-> Nil, path |-> p, body |-> fixtureBasicJSON] :
        o \in {"PostTo", "PutTo", "PostRequest", "PutRequest"},
        p \in SharedPaths}
    \cup {[op |-> o, ctx |-> WithCancel, path |-> p, body |-> Nil] :
        o \in {"GetFromWithContext", "DeleteFromWithContext"},
        p \in SharedPaths}
    \cup {[op |-> o, ctx |-> WithCancel, path |-> p, body |-> fixtureBasicJSON] :
        o \in {"PostToWithContext", "PutToWithContext"},
        p \in SharedPaths}
    \cup {[op |-> "ExecuteRequest", req |-> GetRequest(h, p).req] :
        p \in {x \in SharedPaths : GetRequest(h, x).err = Nil}}

\* the request a call makes with createRequest
Assembled(h, k) ==
    CASE k.op \in {"GetFrom", "GetFromWithContext", "GetRequest"} ->
           GetRequest(h, k.path)
      [] k.op \in {"PostTo", "PostToWithContext", "PostRequest"} ->
           PostRequest(h, k.path, k.body)
      [] k.op \in {"PutTo", "PutToWithContext", "PutRequest"} ->
           PutRequest(h, k.path, k.body)
      [] k.op \in {"DeleteFrom", "DeleteFromWithContext", "DeleteRequest"} ->
           DeleteRequest(h, k.path)

\* mutant of Assemble: the trimmed base URL is stored in the shared client
AssembleCachingBaseURL(h, k) ==
    LET h1 == [h EXCEPT !.config.baseURL = TrimSuffix(@, <<"/">>)]
    IN  IF k.op = "ExecuteRequest"
        THEN [h |-> h, req |-> k.req, err |-> Nil, dispatch |-> TRUE]
        ELSE LET a   == Assembled(h, k)
                 ctx == IF k.ctx = Nil THEN Background ELSE k.ctx
             IN  IF a.err # Nil \/ k.op \in {"GetRequest", "PostRequest",
                                             "PutRequest", "DeleteRequest"}
                 THEN [h |-> h1, req |-> a.req, err |-> a.err, dispatch |-> FALSE]
                 ELSE [h |-> h1, req |-> RequestWithContext(a.req, ctx),
                       err |-> Nil, dispatch |-> TRUE]

\* the first step of call k on client h, up to its return or to the call of
\* ExecuteRequest: the client after the step (no method assigns to a field
\* of h), the request, the error, and whether the request is to be dispatched
Assemble(h, k) ==
    IF k.op = "ExecuteRequest"
    THEN [h |-> h, req |-> k.req, err |-> Nil, dispatch |-> TRUE]
    ELSE LET a   == Assembled(h, k)
             ctx == IF k.ctx = Nil THEN Background ELSE k.ctx
         IN  IF a.err # Nil \/ k.op \in {"GetRequest", "PostRequest",
                                         "PutRequest", "DeleteRequest"}
             THEN [h |-> h, req |-> a.req, err |-> a.err, dispatch |-> FALSE]
             ELSE [h |-> h, req |-> RequestWithContext(a.req, ctx),
                   err |-> Nil, dispatch |-> TRUE]

InitConcurrent ==
    /\ proc = "running"
    /\ cfg \in SharedConfigs
    /\ client = NewHttpClientWithConfig(cfg).client
    /\ call = NoCall
    /\ sent = <<>>
    /\ ret = NoReturn
    /\ rb = NoBuilder
    /\ threads = NoThreads

\* caller c makes a call; the call assembles its request
Enter(c) ==
    /\ proc = "running"
    /\ threads[c].pc = "idle"
    /\ \E k \in SharedCalls(client) :
         \E a \in {Assemble(client, k)} :
             /\ client' = a.h
             /\ threads' = [threads EXCEPT ![c] =
                              [pc |-> IF a.dispatch THEN "dispatching" ELSE "returned",
                               call |-> k, req |-> a.req, err |-> a.err]]
    /\ UNCHANGED <<proc, cfg, call, sent, ret, rb>>

\* the call of caller c runs ExecuteRequest and returns, or the process exits
Dispatch(c) ==
    /\ proc = "running"
    /\ threads[c].pc = "dispatching"
    /\ \E reply \in Replies :
         \E out \in {ExecuteRequest(client, threads[c].req, reply)} :
             /\ proc' = IF out.exit THEN "exited" ELSE proc
             /\ threads' = [threads EXCEPT ![c] = IF out.exit THEN @ ELSE Idle]
    /\ UNCHANGED <<cfg, client, call, sent, ret, rb>>

\* caller c has taken the request or the construction error
Return(c) ==
    /\ proc = "running"
    /\ threads[c].pc = "returned"
    /\ threads' = [threads EXCEPT ![c] = Idle]
    /\ UNCHANGED <<proc, cfg, client, call, sent, ret, rb>>

CallerEnters == \E c \in Callers : Enter(c)
CallerDispatches == \E c \in Callers : Dispatch(c)
CallerReturns == \E c \in Callers : Return(c)

NextConcurrent ==
    \/ CallerEnters
    \/ CallerDispatches
    \/ CallerReturns

SpecConcurrent == InitConcurrent /\ [][NextConcurrent]_vars

----------------------------------------------------------------------------
(* C14: the client is never written *)

\* what the whole handler of verb call k does on client h under a reply
WholeCall(h, k, reply) ==
    CASE k.op = "GetFrom"    -> GetFrom(h, k.path, reply)
      [] k.op = "PostTo"     -> PostTo(h, k.path, k.body, reply)
      [] k.op = "PutTo"      -> PutTo(h, k.path, k.body, reply)
      [] k.op = "DeleteFrom" -> DeleteFrom(h, k.path, reply)
      [] k.op = "GetFromWithContext" -> GetFromWithContext(h, k.ctx, k.path, reply)
      [] k.op = "PostToWithContext" -> PostToWithContext(h, k.ctx, k.path, k.body, reply)
      [] k.op = "PutToWithContext" -> PutToWithContext(h, k.ctx, k.path, k.body, reply)
      [] k.op = "DeleteFromWithContext" -> DeleteFromWithContext(h, k.ctx, k.path, reply)

\* the client as NewHttpClientWithConfig made it
ConstructedClient == NewHttpClientWithConfig(cfg).client

\* what caller c holds is what its call yields on the client as constructed,
\* whatever the other callers do
OwnArgumentsOnly(c) ==
    LET t == threads[c]
    IN  CASE t.pc = "idle" -> TRUE
          [] t.call.op = "ExecuteRequest" ->
               t.req = t.call.req
          [] t.call.op \in RequestOps ->
               [req |-> t.req, err |-> t.err] = Assembled(ConstructedClient, t.call)
          [] OTHER ->
               \A reply \in Replies :
                 LET whole == WholeCall(ConstructedClient, t.call, reply)
                 IN  IF t.pc = "returned"
                     THEN whole.sent = <<>> /\ whole.resp = Nil /\ whole.err = t.err
                     ELSE whole.sent = ExecuteRequest(ConstructedClient, t.req, reply).sent

\* C14: however the calls of the callers interleave, the configuration and
\* the http client handle of the client are those set at construction, and
\* the request of every call in progress is the one its own arguments yield
\* on the construction-time configuration.
C14_ClientNeverWritten ==
    /\ client = ConstructedClient
    /\ client.config = cfg
    /\ client.client = pooledClient
    /\ \A c \in Callers : OwnArgumentsOnly(c)

\* two calls are in progress at once on a client with credentials and a base
\* URL ending in "/"; one has assembled a GET, the other a PUT
C14_Witness ==
    /\ client.config.baseURL = HTTPOrigin \o <<"/">>
    /\ client.config.username # <<>>
    /\ client.config.password # <<>>
    /\ threads["c1"].pc = "dispatching"
    /\ threads["c1"].call.op = "GetFrom"
    /\ threads["c2"].pc = "dispatching"
    /\ threads["c2"].call.op = "PutToWithContext"
    /\ threads["c1"].req.URL # threads["c2"].req.URL
    /\ client = ConstructedClient

====
